---- MODULE Spec2Model ----
(***************************************************************************)
(* Model of src/4anime_gg.py: the episode-range harvester.                 *)
(*                                                                         *)
(* Strings are sequences of one-character strings, so that int(), the two  *)
(* regular expressions, str.replace, str.strip, str.title and the f-string *)
(* formatting are computed character by character as Python computes them. *)
(* An Optional value is a sequence of length 0 (None) or 1 (the value).    *)
(***************************************************************************)
EXTENDS Integers, Sequences, FiniteSets, TLC

\* ------------------------------------------------------------ bounds
\* Number of identifier URLs handed to process_urls_async.
NumUrls == 3
\* Batch size (the max_workers argument of the constructor).
MaxWorkers == 2
\* Longest episode listing explored when a single URL is run.
MaxItems == 3
\* Most result retrievals that time out within one batch.
MaxTimeouts == 2

\* ------------------------------------------------------------ Optional
None == <<>>
Some(x) == <<x>>
IsNone(o) == Len(o) = 0
\* Python truthiness of Optional[int] and Optional[str]
TruthyInt(o) == Len(o) = 1 /\ o[1] # 0
TruthyStr(o) == Len(o) = 1 /\ Len(o[1]) > 0

\* ------------------------------------------------------------ characters
DigitChars == <<"0", "1", "2", "3", "4", "5", "6", "7", "8", "9">>
LowerChars == <<"a", "b", "c", "d", "e", "f", "g", "h", "i", "j", "k", "l", "m",
                "n", "o", "p", "q", "r", "s", "t", "u", "v", "w", "x", "y", "z">>
UpperChars == <<"A", "B", "C", "D", "E", "F", "G", "H", "I", "J", "K", "L", "M",
                "N", "O", "P", "Q", "R", "S", "T", "U", "V", "W", "X", "Y", "Z">>

Range(s) == {s[k] : k \in DOMAIN s}
IndexOf(c, s) == CHOOSE k \in DOMAIN s : s[k] = c

IsDigit(c) == c \in Range(DigitChars)
DigitVal(c) == IndexOf(c, DigitChars) - 1
IsLower(c) == c \in Range(LowerChars)
IsUpper(c) == c \in Range(UpperChars)
IsCased(c) == IsLower(c) \/ IsUpper(c)
ToUpper(c) == IF IsLower(c) THEN UpperChars[IndexOf(c, LowerChars)] ELSE c
ToLower(c) == IF IsUpper(c) THEN LowerChars[IndexOf(c, UpperChars)] ELSE c
IsSpace(c) == c = " "

\* str.strip(): drop leading and trailing whitespace
RECURSIVE LStrip(_)
LStrip(s) == IF Len(s) > 0 /\ IsSpace(s[1]) THEN LStrip(Tail(s)) ELSE s
RECURSIVE RStrip(_)
RStrip(s) ==
    IF Len(s) > 0 /\ IsSpace(s[Len(s)]) THEN RStrip(SubSeq(s, 1, Len(s) - 1)) ELSE s
Strip(s) == RStrip(LStrip(s))

\* value of a non-empty run of decimal digits
RECURSIVE DecVal(_)
DecVal(s) ==
    IF Len(s) = 0 THEN 0
    ELSE DecVal(SubSeq(s, 1, Len(s) - 1)) * 10 + DigitVal(s[Len(s)])

AllDigits(s) == Len(s) > 0 /\ \A k \in DOMAIN s : IsDigit(s[k])

\* int(str) over digits, signs, spaces and letters: surrounding whitespace and
\* one sign are accepted; anything else raises ValueError, modelled as None.
\* (Underscores between digits and non-ASCII digits are outside the inputs.)
ParseInt(str) ==
    LET t == Strip(str)
        signed == Len(t) > 0 /\ t[1] \in {"-", "+"}
        d == IF signed THEN Tail(t) ELSE t
    IN  IF ~AllDigits(d) THEN None
        ELSE IF signed /\ t[1] = "-" THEN Some(0 - DecVal(d))
        ELSE Some(DecVal(d))

\* f"{n}" for an int
RECURSIVE NatToStr(_)
NatToStr(n) ==
    IF n < 10 THEN <<DigitChars[n + 1]>>
    ELSE NatToStr(n \div 10) \o <<DigitChars[(n % 10) + 1]>>
IntToStr(n) == IF n < 0 THEN <<"-">> \o NatToStr(0 - n) ELSE NatToStr(n)

\* ------------------------------------------------------------ regex and str helpers
WatchMarker == <<"/", "w", "a", "t", "c", "h", "/">>

\* positions p where r'/watch/([^?]+)' matches starting at p
WatchMatches(href) ==
    {p \in 1..Len(href) :
        /\ p + Len(WatchMarker) <= Len(href)
        /\ SubSeq(href, p, p + Len(WatchMarker) - 1) = WatchMarker
        /\ href[p + Len(WatchMarker)] # "?"}

\* longest prefix of s holding no "?" (the greedy [^?]+)
RECURSIVE UpToQuestion(_)
UpToQuestion(s) ==
    IF Len(s) = 0 \/ s[1] = "?" THEN <<>> ELSE <<s[1]>> \o UpToQuestion(Tail(s))

Min(S) == CHOOSE x \in S : \A y \in S : x <= y
Max(S) == CHOOSE x \in S : \A y \in S : x >= y

\* re.search(r'/watch/([^?]+)', href): group(1) of the leftmost match, or None
re_search_watch(href) ==
    IF WatchMatches(href) = {} THEN None
    ELSE LET p == Min(WatchMatches(href))
         IN  Some(UpToQuestion(SubSeq(href, p + Len(WatchMarker), Len(href))))

\* positions p where r'-\d+\?$' matches starting at p
SuffixMatches(s) ==
    {p \in 1..Len(s) :
        /\ s[p] = "-"
        /\ p + 2 <= Len(s)
        /\ s[Len(s)] = "?"
        /\ \A q \in (p + 1)..(Len(s) - 1) : IsDigit(s[q])}

\* re.sub(r'-\d+\?$', '', s)
re_sub_suffix(s) ==
    IF SuffixMatches(s) = {} THEN s ELSE SubSeq(s, 1, Min(SuffixMatches(s)) - 1)

\* s.replace('-', ' ')
ReplaceDash(s) == [k \in DOMAIN s |-> IF s[k] = "-" THEN " " ELSE s[k]]

\* s.title(): a cased character is upper-cased after an uncased one (or at the
\* start) and lower-cased after a cased one
Title(s) ==
    [k \in DOMAIN s |->
        IF k > 1 /\ IsCased(s[k - 1]) THEN ToLower(s[k]) ELSE ToUpper(s[k])]

UnknownAnime == <<"U", "n", "k", "n", "o", "w", "n", " ", "A", "n", "i", "m", "e">>

\* ------------------------------------------------------------ range inference
\* An episode item is [data_id |-> Optional[str], anchor |-> BOOLEAN,
\* href |-> Optional[str]]: the data-id attribute of the <li>, whether the
\* <li> holds an <a>, and that anchor's href attribute.

\* lines 68-75: the numeric ids of the listing, in listing order
RECURSIVE episode_numbers(_)
episode_numbers(ep_items) ==
    IF Len(ep_items) = 0 THEN <<>>
    ELSE LET data_id == ep_items[1].data_id
             rest == episode_numbers(Tail(ep_items))
         IN  IF ~TruthyStr(data_id) THEN rest
             ELSE IF IsNone(ParseInt(data_id[1])) THEN rest
             ELSE <<ParseInt(data_id[1])[1]>> \o rest

\* mutant: the first id in listing order instead of the smallest
first_ep_in_listing_order(nums) == nums[1]

\* lines 82-89
first_ep_of(nums) == IF Len(nums) = 1 THEN nums[1] ELSE Min(Range(nums))
last_ep_of(nums) == IF Len(nums) = 1 THEN nums[1] ELSE Max(Range(nums))

\* mutant: the name token is taken from the last listing item
anime_name_of_last(ep_items) ==
    LET link == ep_items[Len(ep_items)]
    IN  IF ~link.anchor \/ ~TruthyStr(link.href) THEN None
        ELSE LET match == re_search_watch(link.href[1])
             IN  IF IsNone(match) THEN None ELSE Some(match[1] \o <<"?">>)

\* lines 92-98: the name token of the first listing item
anime_name_of(ep_items) ==
    LET first_ep_link == ep_items[1]
    IN  IF ~first_ep_link.anchor \/ ~TruthyStr(first_ep_link.href) THEN None
        ELSE LET match == re_search_watch(first_ep_link.href[1])
             IN  IF IsNone(match) THEN None ELSE Some(match[1] \o <<"?">>)

\* ------------------------------------------------------------ episode fetcher
\* A response of the listing endpoint:
\*   transport  "ok", or "error" when session.get raises (connection error,
\*              the 10 s total timeout)
\*   status     the HTTP status
\*   body       "invalid" (response.json() raises), "nonobject" (JSON that is
\*              no object, so data.get raises) or "object"
\*   html       "absent" (no html key), "empty" ("" or null) or "markup"
\*   items      the <li class="ep-item"> elements of the markup, in order
\* The outcome of a call is [exc, ret, errs]: whether it raised, the returned
\* tuple, and the URLs it appended to error_urls.
NoResult == <<None, None, None>>
Returned(ret, errs) == [exc |-> FALSE, ret |-> ret, errs |-> errs]
Raised(errs) == [exc |-> TRUE, ret |-> NoResult, errs |-> errs]

\* mutant: the non-200 branch records the URL but lacks its return
extract_try_fallthrough(url, response) ==
    IF response.transport # "ok" THEN Raised(<<>>)
    ELSE IF response.body # "object" THEN Raised(<<>>)
    ELSE LET errs == IF response.status # 200 THEN <<url>> ELSE <<>>
             nums == episode_numbers(response.items)
         IN  IF response.html # "markup" \/ Len(response.items) = 0 \/ Len(nums) = 0
             THEN Returned(NoResult, errs \o <<url>>)
             ELSE Returned(<<Some(first_ep_of(nums)), Some(last_ep_of(nums)),
                             anime_name_of(response.items)>>, errs)

\* lines 49-100: the body of the try block
extract_try(url, response) ==
    IF response.transport # "ok" THEN Raised(<<>>)
    ELSE IF response.status # 200 THEN Returned(NoResult, <<url>>)
    ELSE IF response.body # "object" THEN Raised(<<>>)
    ELSE IF response.html # "markup" THEN Returned(NoResult, <<url>>)
    ELSE IF Len(response.items) = 0 THEN Returned(NoResult, <<url>>)
    ELSE LET nums == episode_numbers(response.items)
         IN  IF Len(nums) = 0 THEN Returned(NoResult, <<url>>)
             ELSE Returned(<<Some(first_ep_of(nums)), Some(last_ep_of(nums)),
                             anime_name_of(response.items)>>, <<>>)

\* mutant: no except clause, the exception reaches gather
extract_no_except(url, response) == extract_try(url, response)

\* lines 46-105: the except clause turns any exception into a failure entry
extract_episodes_and_name(url, response) ==
    LET r == extract_try(url, response)
    IN  IF r.exc THEN Returned(NoResult, r.errs \o <<url>>) ELSE r

\* lines 260-305: the body of the try block of the thread-pool variant.
\* raise_for_status raises from 400 on; the returned None is NoResult here.
process_single_try(url, response) ==
    IF response.transport # "ok" THEN Raised(<<>>)
    ELSE IF response.status >= 400 THEN Raised(<<>>)
    ELSE IF response.body # "object" THEN Raised(<<>>)
    ELSE IF response.html # "markup" THEN Returned(NoResult, <<url>>)
    ELSE IF Len(response.items) = 0 THEN Returned(NoResult, <<url>>)
    ELSE LET nums == episode_numbers(response.items)
         IN  IF Len(nums) = 0 THEN Returned(NoResult, <<url>>)
             ELSE Returned(<<Some(first_ep_of(nums)), Some(last_ep_of(nums)),
                             anime_name_of(response.items)>>, <<>>)

\* lines 258-309
process_single_url(url, response) ==
    LET r == process_single_try(url, response)
    IN  IF r.exc THEN Returned(NoResult, r.errs \o <<url>>) ELSE r

\* ------------------------------------------------------------ catalog enricher
\* An answer of the search endpoint:
\*   transport    "ok", "error" or "timeout" (requests.get raises)
\*   status       the HTTP status (raise_for_status raises from 400 on)
\*   body         "invalid", "nonobject" or "object", as above
\*   has_results  whether the object has a results key
\*   results      the candidates, each [id |-> Optional[int],
\*                first_air_date |-> Optional[str], name |-> Optional[str]],
\*                None standing for a missing key
\* The outcome of a call is [exc, ret]: whether it raised and the returned
\* (tmdb_id, year, title).

\* 'YYYY-MM-DD'.split('-')[0]
RECURSIVE UpToDash(_)
UpToDash(s) ==
    IF Len(s) = 0 \/ s[1] = "-" THEN <<>> ELSE <<s[1]>> \o UpToDash(Tail(s))

\* lines 112-113
clean_name_of(anime_name) == Strip(ReplaceDash(re_sub_suffix(anime_name)))

\* lines 123-135: the body of the try block
tmdb_try(clean_name, answer) ==
    IF answer.transport # "ok" THEN [exc |-> TRUE, ret |-> NoResult]
    ELSE IF answer.status >= 400 THEN [exc |-> TRUE, ret |-> NoResult]
    ELSE IF answer.body # "object" THEN [exc |-> TRUE, ret |-> NoResult]
    ELSE IF ~answer.has_results THEN [exc |-> TRUE, ret |-> NoResult]
    ELSE IF Len(answer.results) = 0
         THEN [exc |-> FALSE, ret |-> <<None, None, Title(clean_name)>>]
    ELSE LET series_data == answer.results[1]
             date == series_data.first_air_date
             year == IF TruthyStr(date) THEN ParseInt(UpToDash(date[1])) ELSE None
             name == IF IsNone(series_data.name) THEN Title(clean_name)
                     ELSE series_data.name[1]
         IN  IF IsNone(series_data.id) THEN [exc |-> TRUE, ret |-> NoResult]
             ELSE IF TruthyStr(date) /\ IsNone(year)
                  THEN [exc |-> TRUE, ret |-> NoResult]
             ELSE [exc |-> FALSE, ret |-> <<series_data.id, year, name>>]

\* mutant: the except clause returns the normalized name as it is
get_tmdb_raw_on_error(anime_name, answer) ==
    IF ~TruthyStr(anime_name) THEN [exc |-> FALSE, ret |-> <<None, None, UnknownAnime>>]
    ELSE LET clean_name == clean_name_of(anime_name[1])
             r == tmdb_try(clean_name, answer)
         IN  IF r.exc THEN [exc |-> FALSE, ret |-> <<None, None, clean_name>>]
             ELSE r

\* mutant: no except clause around the request
get_tmdb_no_except(anime_name, answer) ==
    IF ~TruthyStr(anime_name) THEN [exc |-> FALSE, ret |-> <<None, None, UnknownAnime>>]
    ELSE tmdb_try(clean_name_of(anime_name[1]), answer)

\* lines 107-138 (and 379-410): anime_name is an Optional[str]
get_tmdb_info_sync(anime_name, answer) ==
    IF ~TruthyStr(anime_name) THEN [exc |-> FALSE, ret |-> <<None, None, UnknownAnime>>]
    ELSE LET clean_name == clean_name_of(anime_name[1])
             r == tmdb_try(clean_name, answer)
         IN  IF r.exc THEN [exc |-> FALSE, ret |-> <<None, None, Title(clean_name)>>]
             ELSE r

\* ------------------------------------------------------------ inputs
Str_x == <<"x">>
Str_0 == <<"0">>
Str_3 == <<"3">>
Str_5 == <<"5">>
Str_12 == <<"1", "2">>
HrefGood == <<"/", "w", "a", "t", "c", "h", "/", "a", "b", "-", "1", "?", "e">>
HrefNoQuery == <<"/", "w", "a", "t", "c", "h", "/", "a", "b">>
HrefNoName == <<"/", "w", "a", "t", "c", "h", "/", "?", "e">>
HrefOther == <<"/", "w", "/", "a", "b">>
HrefSecond == <<"/", "w", "a", "t", "c", "h", "/", "c", "d", "-", "2", "?", "e">>

\* data-id attributes: missing, non-numeric and numeric ones
DataIds == {None, Some(Str_x), Some(Str_0), Some(Str_3), Some(Str_5), Some(Str_12)}

Item(data_id, anchor, href) == [data_id |-> data_id, anchor |-> anchor, href |-> href]

\* the first item of a listing, over every shape of its link
FirstItems ==
    {Item(d, FALSE, None) : d \in DataIds}
    \cup {Item(d, TRUE, h) : d \in DataIds,
                             h \in {None, Some(<<>>), Some(HrefOther), Some(HrefNoName),
                                    Some(HrefGood), Some(HrefNoQuery)}}
\* the later items carry a link to another title
OtherItems == {Item(d, TRUE, Some(HrefSecond)) : d \in DataIds}

ListingsOfLen(n) ==
    {<<f>> \o rest : f \in FirstItems, rest \in [1..(n - 1) -> OtherItems]}
Listings == UNION {ListingsOfLen(n) : n \in 1..MaxItems}

Response(transport, status, body, html, items) ==
    [transport |-> transport, status |-> status, body |-> body, html |-> html,
     items |-> items]
Markup(items) == Response("ok", 200, "object", "markup", items)

ListingMulti ==
    <<Item(Some(Str_5), TRUE, Some(HrefGood)), Item(Some(Str_3), TRUE, Some(HrefSecond)),
      Item(Some(Str_12), TRUE, Some(HrefSecond))>>
ListingSingle == <<Item(Some(Str_12), TRUE, Some(HrefNoQuery))>>
ListingNoName == <<Item(Some(Str_3), FALSE, None)>>
ListingFromZero ==
    <<Item(Some(Str_0), TRUE, Some(HrefGood)), Item(Some(Str_5), TRUE, Some(HrefSecond))>>

\* every shape of response, for the run of a single URL
AllResponses ==
    {Response("error", 0, "invalid", "absent", <<>>),
     Response("ok", 404, "object", "markup", ListingMulti),
     Response("ok", 201, "object", "markup", ListingMulti),
     Response("ok", 200, "invalid", "absent", <<>>),
     Response("ok", 200, "nonobject", "absent", <<>>),
     Response("ok", 200, "object", "absent", <<>>),
     Response("ok", 200, "object", "empty", <<>>),
     Markup(<<>>)}
    \cup {Markup(l) : l \in Listings}

\* the responses drawn when several URLs are run
Responses ==
    {Response("error", 0, "invalid", "absent", <<>>),
     Response("ok", 404, "object", "markup", ListingMulti),
     Markup(ListingMulti), Markup(ListingSingle), Markup(ListingNoName),
     Markup(ListingFromZero)}

Answer(transport, status, body, has_results, results) ==
    [transport |-> transport, status |-> status, body |-> body,
     has_results |-> has_results, results |-> results]
Candidate(id, first_air_date, name) ==
    [id |-> id, first_air_date |-> first_air_date, name |-> name]

DateGood == <<"2", "0", "1", "9", "-", "0", "4">>
DateBad == <<"t", "b", "a">>
CatalogTitle == <<"A", "B", " ", "t", "v">>

Candidates ==
    {Candidate(id, d, n) : id \in {None, Some(7)},
                           d \in {None, Some(<<>>), Some(DateGood), Some(DateBad)},
                           n \in {None, Some(CatalogTitle)}}

\* every shape of answer of the search endpoint
AllAnswers ==
    {Answer("error", 0, "invalid", FALSE, <<>>),
     Answer("timeout", 0, "invalid", FALSE, <<>>),
     Answer("ok", 500, "object", TRUE, <<>>),
     Answer("ok", 200, "invalid", FALSE, <<>>),
     Answer("ok", 200, "nonobject", FALSE, <<>>),
     Answer("ok", 200, "object", FALSE, <<>>),
     Answer("ok", 200, "object", TRUE, <<>>)}
    \cup {Answer("ok", 200, "object", TRUE, <<c>>) : c \in Candidates}
    \cup {Answer("ok", 200, "object", TRUE,
                 <<Candidate(Some(7), Some(DateGood), Some(CatalogTitle)), c>>) :
             c \in Candidates}

\* the name tokens handed to the enricher when it is called on its own
TokenGood == <<"a", "b", "-", "1", "?">>
TokenNoSuffix == <<"a", "b", "?">>
TokenOnlySuffix == <<"-", "1", "2", "?">>
TokenWords == <<"c", "D", "-", "8", "6", "-", "x", "-", "3", "?">>
NameTokens ==
    {None, Some(<<>>), Some(TokenGood), Some(TokenNoSuffix), Some(TokenOnlySuffix),
     Some(TokenWords)}

AnswerError == Answer("error", 0, "invalid", FALSE, <<>>)
AnswerEmpty == Answer("ok", 200, "object", TRUE, <<>>)
AnswerMatch ==
    Answer("ok", 200, "object", TRUE,
           <<Candidate(Some(7), Some(DateGood), Some(CatalogTitle))>>)
\* no answer yet
NoAnswer == Answer("pending", 0, "invalid", FALSE, <<>>)

\* the answers drawn inside the run of a single URL
Answers ==
    {Answer("error", 0, "invalid", FALSE, <<>>),
     Answer("ok", 200, "object", TRUE, <<>>),
     Answer("ok", 200, "object", TRUE,
            <<Candidate(Some(7), Some(DateGood), Some(CatalogTitle))>>)}

\* the answers drawn when several URLs are run
FewAnswers == {AnswerError, AnswerMatch}

\* ------------------------------------------------------------ state
VARIABLES
    variant,          \* "async" (main) or "sync" (fast_sync_version)
    urls,             \* the list of identifier URLs to process
    source,           \* the listing endpoint: identifier -> response
    oracle,           \* the search endpoint: the answers it may give
    max_workers,      \* self.max_workers, the batch size (async)
    pc,               \* position of the orchestrator
    i,                \* offset of the current batch in urls (async)
    results,          \* outcome of each fetch task
    error_urls,       \* self.error_urls / error_urls
    successful_data,  \* the records emitted so far
    record_task,      \* history: the task (and answer) each record was built from
    tmdb_tasks,       \* tmdb_tasks (async: zipped with valid_results)
    futures,          \* the futures of tmdb_tasks
    k,                \* index of the next tmdb task to collect (async)
    call              \* a call of get_tmdb_info_sync on its own

vars == <<variant, urls, source, oracle, max_workers, pc, i, results, error_urls, successful_data,
          record_task, tmdb_tasks, futures, k, call>>

\* ThreadPoolExecutor(max_workers=10)
PoolWorkers == 10

Pending == [done |-> FALSE, exc |-> FALSE, ret |-> NoResult]
NoCall ==
    [state |-> "idle", name |-> None, answer |-> Answer("ok", 200, "object", TRUE, <<>>),
     ret |-> NoResult]

\* line 146: urls[i:i + self.max_workers]
batch_urls ==
    SubSeq(urls, i + 1, IF i + max_workers < Len(urls) THEN i + max_workers ELSE Len(urls))

Start(v, us, src) ==
    /\ variant = v
    /\ urls = us
    /\ source \in [Range(us) -> src]
    /\ pc = "start"
    /\ i = 0
    /\ results = <<>>
    /\ error_urls = <<>>
    /\ successful_data = <<>>
    /\ record_task = <<>>
    /\ tmdb_tasks = <<>>
    /\ futures = <<>>
    /\ k = 1

\* lines 204, 254: the identifier URLs, each once
AnimeUrls == [n \in 1..NumUrls |-> n]

\* either entry point of the script (lines 454, 457), on several URLs
Init ==
    /\ \E v \in {"async", "sync"} : Start(v, AnimeUrls, Responses)
    /\ oracle = FewAnswers
    /\ max_workers = MaxWorkers
    /\ call = NoCall

\* main with a batch size above the enrichment pool's 10 threads (line 210
\* sets 30), on one batch of that size and one URL more; every URL has a
\* listing and the search endpoint finds nothing
PoolUrls == [n \in 1..(PoolWorkers + 2) |-> n]
InitPool ==
    /\ Start("async", PoolUrls, {Markup(ListingSingle)})
    /\ oracle = {AnswerEmpty}
    /\ max_workers = PoolWorkers + 1
    /\ call = NoCall

\* main on several URLs, each of which fails or gives a listing
InitLive ==
    /\ Start("async", AnimeUrls,
             {Response("error", 0, "invalid", "absent", <<>>), Markup(ListingSingle)})
    /\ oracle = FewAnswers
    /\ max_workers = MaxWorkers
    /\ call = NoCall

\* either entry point on one URL, over every shape of response
InitFetch ==
    /\ \E v \in {"async", "sync"} : Start(v, <<1>>, AllResponses)
    /\ oracle = Answers
    /\ max_workers = MaxWorkers
    /\ call = NoCall

\* get_tmdb_info_sync called on its own
InitEnrich ==
    /\ Start("async", <<>>, Responses)
    /\ oracle = AllAnswers
    /\ max_workers = MaxWorkers
    /\ call \in [state : {"ready"}, name : NameTokens, answer : AllAnswers,
                 ret : {NoResult}]

\* ------------------------------------------------------------ orchestrator
\* mutant: the single-episode case is not told apart
episodes_str_always_range(first_ep, last_ep) ==
    IntToStr(first_ep) \o <<"-">> \o IntToStr(last_ep)

\* lines 174-178 (and 339-342)
episodes_str(first_ep, last_ep) ==
    IF first_ep = last_ep THEN IntToStr(first_ep)
    ELSE IntToStr(first_ep) \o <<"-">> \o IntToStr(last_ep)

\* mutant: serial_no counts from 0
series_entry_zero_based(emitted, first_ep, last_ep, anime_name, tmdb) ==
    [serial_no |-> Len(emitted),
     name |-> anime_name,
     title |-> tmdb[3],
     tmdb_id |-> tmdb[1],
     imdb_id |-> None,
     year |-> tmdb[2],
     episodes |-> IF first_ep = last_ep THEN IntToStr(first_ep)
                  ELSE IntToStr(first_ep) \o <<"-">> \o IntToStr(last_ep),
     episode_offset |-> first_ep - 1]

\* mutant: episode_offset is the first episode itself
series_entry_offset_first(emitted, first_ep, last_ep, anime_name, tmdb) ==
    [serial_no |-> Len(emitted) + 1,
     name |-> anime_name,
     title |-> tmdb[3],
     tmdb_id |-> tmdb[1],
     imdb_id |-> None,
     year |-> tmdb[2],
     episodes |-> episodes_str(first_ep, last_ep),
     episode_offset |-> first_ep]

\* lines 172-189 (and 336-353): the record built from a task and its
\* (tmdb_id, year, title); anime_name is an Optional[str]
series_entry(emitted, first_ep, last_ep, anime_name, tmdb) ==
    [serial_no |-> Len(emitted) + 1,
     name |-> anime_name,
     title |-> tmdb[3],
     tmdb_id |-> tmdb[1],
     imdb_id |-> None,
     year |-> tmdb[2],
     episodes |-> episodes_str(first_ep, last_ep),
     episode_offset |-> first_ep - 1]

\* lines 158-162: the results that get an enrichment task
is_valid(result) ==
    /\ ~result.exc
    /\ ~IsNone(result.ret[1])
    /\ TruthyInt(result.ret[1])
    /\ TruthyInt(result.ret[2])
    /\ TruthyStr(result.ret[3])

\* line 322: the results that are not None
is_not_none(result) == ~IsNone(result.ret[1])

Task(url, ret) ==
    [url |-> url, first_ep |-> ret[1][1], last_ep |-> ret[2][1], anime_name |-> ret[3]]

\* lines 157-166: one task per valid result, in batch order
RECURSIVE submit_tasks(_, _)
submit_tasks(rs, us) ==
    IF Len(rs) = 0 THEN <<>>
    ELSE LET rest == submit_tasks(Tail(rs), Tail(us))
         IN  IF is_valid(rs[1]) THEN <<Task(us[1], rs[1].ret)>> \o rest ELSE rest

\* lines 322-329: one task per result that is not None, in URL order
RECURSIVE sync_tasks(_, _)
sync_tasks(rs, us) ==
    IF Len(rs) = 0 THEN <<>>
    ELSE LET rest == sync_tasks(Tail(rs), Tail(us))
         IN  IF is_not_none(rs[1]) THEN <<Task(us[1], rs[1].ret)>> \o rest ELSE rest

\* a future: its state, what the call raised or returned, and as history
\* the answer the call got and whether its retrieval timed out
Queued ==
    [state |-> "queued", exc |-> FALSE, ret |-> NoResult, answer |-> NoAnswer,
     timed_out |-> FALSE]

\* line 145: the loop over the batches starts
Enter ==
    /\ variant = "async"
    /\ pc = "start"
    /\ pc' = "batch"
    /\ UNCHANGED <<variant, urls, source, oracle,
                   max_workers, i, results, error_urls, successful_data,
                   record_task, tmdb_tasks, futures, k, call>>

\* lines 145-150: the next batch's fetch tasks are created and all dispatched
DispatchBatch ==
    /\ pc = "batch"
    /\ i < Len(urls)
    /\ results' = [j \in 1..Len(batch_urls) |-> Pending]
    /\ pc' = "gather"
    /\ UNCHANGED <<variant, urls, source, oracle,
                   max_workers, i, error_urls, successful_data, record_task,
                   tmdb_tasks, futures, k, call>>

\* mutant: the failure list is rebuilt from the task's own failures, which
\* loses the entries of the other tasks
FetchReturn_lost_update(j) ==
    /\ pc = "gather"
    /\ ~results[j].done
    /\ LET r == extract_episodes_and_name(batch_urls[j], source[batch_urls[j]])
       IN  /\ error_urls' = IF r.errs = <<>> THEN error_urls ELSE r.errs
           /\ results' = [results EXCEPT ![j] = [done |-> TRUE, exc |-> r.exc, ret |-> r.ret]]
    /\ UNCHANGED <<variant, urls, source, oracle,
                   max_workers, pc, i, successful_data, record_task,
                   tmdb_tasks, futures, k, call>>

\* lines 46-105: the fetch of batch_urls[j] is answered and the task runs to
\* its return
FetchReturn(j) ==
    /\ pc = "gather"
    /\ ~results[j].done
    /\ LET r == extract_episodes_and_name(batch_urls[j], source[batch_urls[j]])
       IN  /\ error_urls' = error_urls \o r.errs
           /\ results' = [results EXCEPT ![j] = [done |-> TRUE, exc |-> r.exc, ret |-> r.ret]]
    /\ UNCHANGED <<variant, urls, source, oracle,
                   max_workers, pc, i, successful_data, record_task,
                   tmdb_tasks, futures, k, call>>

\* lines 150-166: gather returns once every task has; the valid results are
\* submitted to a fresh pool
SubmitEnrichment ==
    /\ pc = "gather"
    /\ \A j \in DOMAIN results : results[j].done
    /\ tmdb_tasks' = submit_tasks(results, batch_urls)
    /\ futures' = [t \in DOMAIN tmdb_tasks' |-> Queued]
    /\ k' = 1
    /\ pc' = "collect"
    /\ UNCHANGED <<variant, urls, source, oracle,
                   max_workers, i, results, error_urls, successful_data,
                   record_task, call>>

Running == {t \in DOMAIN futures : futures[t].state = "running"}

\* mutant: a thread per submitted call, whatever the size of the pool
WorkerStart_unbounded(t) ==
    /\ pc \in {"collect", "lookup"}
    /\ futures[t].state = "queued"
    /\ \A earlier \in 1..(t - 1) : futures[earlier].state # "queued"
    /\ futures' = [futures EXCEPT ![t].state = "running"]
    /\ UNCHANGED <<variant, urls, source, oracle,
                   max_workers, pc, i, results, error_urls, successful_data,
                   record_task, tmdb_tasks, k, call>>

\* a thread of the enrichment pool takes the oldest queued call off the
\* pool's FIFO work queue (lines 153, 325); there are at most 10 threads
WorkerStart(t) ==
    /\ pc \in {"collect", "lookup"}
    /\ futures[t].state = "queued"
    /\ \A earlier \in 1..(t - 1) : futures[earlier].state # "queued"
    /\ Cardinality(Running) < PoolWorkers
    /\ futures' = [futures EXCEPT ![t].state = "running"]
    /\ UNCHANGED <<variant, urls, source, oracle,
                   max_workers, pc, i, results, error_urls, successful_data,
                   record_task, tmdb_tasks, k, call>>

\* lines 107-138 (and 379-410): the call ends, on some answer of the search
\* endpoint
WorkerFinish(t, answer) ==
    /\ pc \in {"collect", "lookup"}
    /\ futures[t].state = "running"
    /\ LET r == get_tmdb_info_sync(tmdb_tasks[t].anime_name, answer)
           \* the search endpoint is asked only for a non-empty name (line 109)
           asked == IF TruthyStr(tmdb_tasks[t].anime_name) THEN answer ELSE NoAnswer
       IN  futures' = [futures EXCEPT ![t].state = "done", ![t].exc = r.exc,
                                      ![t].ret = r.ret, ![t].answer = asked]
    /\ UNCHANGED <<variant, urls, source, oracle,
                   max_workers, pc, i, results, error_urls, successful_data,
                   record_task, tmdb_tasks, k, call>>

\* the record of task t is appended
Emit(t) ==
    /\ successful_data' =
           Append(successful_data,
                  series_entry(successful_data, tmdb_tasks[t].first_ep,
                               tmdb_tasks[t].last_ep, tmdb_tasks[t].anime_name,
                               futures[t].ret))
    /\ record_task' =
           Append(record_task,
                  [url |-> tmdb_tasks[t].url, first_ep |-> tmdb_tasks[t].first_ep,
                   last_ep |-> tmdb_tasks[t].last_ep,
                   anime_name |-> tmdb_tasks[t].anime_name,
                   answer |-> futures[t].answer])

\* lines 169-192: future.result returns (or re-raises what the call raised,
\* and the except clause goes on to the next task)
CollectResult ==
    /\ pc = "collect"
    /\ k <= Len(tmdb_tasks)
    /\ futures[k].state = "done"
    /\ IF futures[k].exc THEN UNCHANGED <<successful_data, record_task>> ELSE Emit(k)
    /\ k' = k + 1
    /\ UNCHANGED <<variant, urls, source, oracle,
                   max_workers, pc, i, results, error_urls, tmdb_tasks,
                   futures, call>>

\* the calls of the batch whose retrieval timed out
TimedOut == {t \in DOMAIN futures : futures[t].timed_out}

\* lines 171, 191-192: future.result(timeout=10) raises while the call is not
\* done; the except clause goes on to the next task (the model follows the
\* runs with at most MaxTimeouts such timeouts in a batch)
CollectTimeout ==
    /\ pc = "collect"
    /\ k <= Len(tmdb_tasks)
    /\ futures[k].state # "done"
    /\ Cardinality(TimedOut) < MaxTimeouts
    /\ futures' = [futures EXCEPT ![k].timed_out = TRUE]
    /\ k' = k + 1
    /\ UNCHANGED <<variant, urls, source, oracle,
                   max_workers, pc, i, results, error_urls, successful_data,
                   record_task, tmdb_tasks, call>>

\* mutant: the pool is left without waiting for its calls
ExecutorExit_no_wait ==
    /\ pc = "collect"
    /\ k > Len(tmdb_tasks)
    /\ i' = i + max_workers
    /\ pc' = "batch"
    /\ UNCHANGED <<variant, urls, source, oracle,
                   max_workers, results, error_urls, successful_data,
                   record_task, tmdb_tasks, futures, k, call>>

\* lines 153, 195: leaving the with block waits for every call of the pool;
\* then the pause, and the next batch
ExecutorExit ==
    /\ pc = "collect"
    /\ k > Len(tmdb_tasks)
    /\ \A t \in DOMAIN futures : futures[t].state = "done"
    /\ i' = i + max_workers
    /\ pc' = "batch"
    /\ UNCHANGED <<variant, urls, source, oracle,
                   max_workers, results, error_urls, successful_data,
                   record_task, tmdb_tasks, futures, k, call>>

\* mutant: the batch loop is left as soon as a URL has failed
Return_on_failure ==
    /\ pc = "batch"
    /\ i >= Len(urls) \/ error_urls # <<>>
    /\ pc' = "done"
    /\ UNCHANGED <<variant, urls, source, oracle,
                   max_workers, i, results, error_urls, successful_data,
                   record_task, tmdb_tasks, futures, k, call>>

\* line 197
Return ==
    /\ pc = "batch"
    /\ i >= Len(urls)
    /\ pc' = "done"
    /\ UNCHANGED <<variant, urls, source, oracle,
                   max_workers, i, results, error_urls, successful_data,
                   record_task, tmdb_tasks, futures, k, call>>

\* ------------------------------------------------------------ thread-pool variant
\* lines 314-319: executor.map submits process_single_url for every URL
MapDispatch ==
    /\ variant = "sync"
    /\ pc = "start"
    /\ results' = [j \in DOMAIN urls |-> Pending]
    /\ pc' = "map"
    /\ UNCHANGED <<variant, urls, source, oracle,
                   max_workers, i, error_urls, successful_data, record_task,
                   tmdb_tasks, futures, k, call>>

\* lines 258-309: a pool thread runs process_single_url(urls[j]) to its
\* return; list.append is atomic. The 15 threads of line 314 exceed the
\* URLs explored, so the calls run in any order.
MapReturn(j) ==
    /\ pc = "map"
    /\ ~results[j].done
    /\ LET r == process_single_url(urls[j], source[urls[j]])
       IN  /\ error_urls' = error_urls \o r.errs
           /\ results' = [results EXCEPT ![j] = [done |-> TRUE, exc |-> r.exc, ret |-> r.ret]]
    /\ UNCHANGED <<variant, urls, source, oracle,
                   max_workers, pc, i, successful_data, record_task,
                   tmdb_tasks, futures, k, call>>

\* lines 319-329: the with block ends once every URL is processed; the
\* results that are not None are submitted to the enrichment pool
SubmitLookup ==
    /\ pc = "map"
    /\ \A j \in DOMAIN results : results[j].done
    /\ tmdb_tasks' = sync_tasks(results, urls)
    /\ futures' = [t \in DOMAIN tmdb_tasks' |-> Queued]
    /\ pc' = "lookup"
    /\ UNCHANGED <<variant, urls, source, oracle,
                   max_workers, i, results, error_urls, successful_data,
                   record_task, k, call>>

\* lines 331-356: as_completed yields a finished future; its record is
\* appended, or its URL if the call raised
LookupYield(t) ==
    /\ pc = "lookup"
    /\ futures[t].state = "done"
    /\ IF futures[t].exc
       THEN /\ error_urls' = Append(error_urls, tmdb_tasks[t].url)
            /\ UNCHANGED <<successful_data, record_task>>
       ELSE /\ Emit(t)
            /\ UNCHANGED error_urls
    /\ futures' = [futures EXCEPT ![t].state = "yielded"]
    /\ UNCHANGED <<variant, urls, source, oracle,
                   max_workers, pc, i, results, tmdb_tasks, k, call>>

\* lines 356-358: every future was yielded and the with block is left
LookupExit ==
    /\ pc = "lookup"
    /\ \A t \in DOMAIN futures : futures[t].state = "yielded"
    /\ pc' = "done"
    /\ UNCHANGED <<variant, urls, source, oracle,
                   max_workers, i, results, error_urls, successful_data,
                   record_task, tmdb_tasks, futures, k, call>>

\* ------------------------------------------------------------ enricher on its own
CallEnricher ==
    /\ call.state = "ready"
    /\ LET r == get_tmdb_info_sync(call.name, call.answer)
       IN  call' = [call EXCEPT !.state = IF r.exc THEN "raised" ELSE "returned",
                                !.ret = r.ret]
    /\ UNCHANGED <<variant, urls, source, oracle,
                   max_workers, pc, i, results, error_urls, successful_data,
                   record_task, tmdb_tasks, futures, k>>

Next ==
    \/ Enter
    \/ DispatchBatch
    \/ \E j \in DOMAIN results : FetchReturn(j)
    \/ SubmitEnrichment
    \/ \E t \in DOMAIN futures : WorkerStart(t)
    \/ \E t \in DOMAIN futures, answer \in oracle : WorkerFinish(t, answer)
    \/ CollectResult
    \/ CollectTimeout
    \/ ExecutorExit
    \/ Return
    \/ MapDispatch
    \/ \E j \in DOMAIN results : MapReturn(j)
    \/ SubmitLookup
    \/ \E t \in DOMAIN futures : LookupYield(t)
    \/ LookupExit

\* the steps of main / process_urls_async alone
NextAsync ==
    \/ Enter
    \/ DispatchBatch
    \/ \E j \in DOMAIN results : FetchReturn(j)
    \/ SubmitEnrichment
    \/ \E t \in DOMAIN futures : WorkerStart(t)
    \/ \E t \in DOMAIN futures, answer \in oracle : WorkerFinish(t, answer)
    \/ CollectResult
    \/ CollectTimeout
    \/ ExecutorExit
    \/ Return

Spec == Init /\ [][Next]_vars
SpecFetch == InitFetch /\ [][Next]_vars
SpecEnrich == InitEnrich /\ [][CallEnricher]_vars
\* a batch larger than the enrichment pool
SpecPool == InitPool /\ [][NextAsync]_vars
\* every request ends (response or timeout, lines 53, 126), every thread and
\* the event loop keep running: a step that stays possible is taken
SpecLive == InitLive /\ [][NextAsync]_vars /\ WF_vars(NextAsync)

\* ------------------------------------------------------------ properties
\* what became of an identifier URL
Produced(u) == \E n \in DOMAIN record_task : record_task[n].url = u
Failed(u) == u \in Range(error_urls)
FailureCount(u) == Cardinality({n \in DOMAIN error_urls : error_urls[n] = u})

\* results is aligned with batch_urls (async) or with urls (sync) while
\* InFetchScope holds
InFetchScope ==
    \/ variant = "async" /\ pc \in {"gather", "collect"}
    \/ variant = "sync" /\ pc \in {"map", "lookup", "done"}
FetchedUrl(j) == IF variant = "async" THEN batch_urls[j] ELSE urls[j]

\* read off the listing itself
IsNumericItem(item) == TruthyStr(item.data_id) /\ ~IsNone(ParseInt(item.data_id[1]))
NumericItems(items) == {n \in DOMAIN items : IsNumericItem(items[n])}
NumericValues(items) == {ParseInt(items[n].data_id[1])[1] : n \in NumericItems(items)}
IsListing(response) ==
    /\ response.transport = "ok"
    /\ response.status = 200
    /\ response.body = "object"
    /\ response.html = "markup"
LinkMatches(item) ==
    item.anchor /\ TruthyStr(item.href) /\ WatchMatches(item.href[1]) # {}
\* the name token each link of the inputs stands for
ExpectedToken(item) ==
    IF ~item.anchor THEN None
    ELSE IF item.href = Some(HrefGood) THEN Some(TokenGood)
    ELSE IF item.href = Some(HrefNoQuery) THEN Some(TokenNoSuffix)
    ELSE IF item.href = Some(HrefSecond) THEN Some(<<"c", "d", "-", "2", "?">>)
    ELSE None

\* C1: once process_urls_async has returned, every identifier URL of the
\* input has produced a record or is in error_urls.
C1_NoIdentifierVanishes ==
    (variant = "async" /\ pc = "done") =>
        \A u \in Range(urls) : Produced(u) \/ Failed(u)

\* C2: in every state no identifier has both a record and a failure entry,
\* and no URL is in the failure list more than once.
C2_RecordOrFailureNotBoth ==
    \A u \in Range(urls) : ~(Produced(u) /\ Failed(u)) /\ FailureCount(u) <= 1

\* two fetches of one batch failed, the later URL first, and a record exists
C2_Witness ==
    /\ Len(error_urls) >= 2
    /\ error_urls[1] > error_urls[2]
    /\ Len(successful_data) >= 1

\* C3: in process_urls_async, a task whose result retrieval is over without
\* a record (future.result raised) has its URL in the failure list.
C3_RetrievalFailureRecorded ==
    (variant = "async" /\ pc = "collect") =>
        \A t \in 1..(k - 1) :
            ~Produced(tmdb_tasks[t].url) => Failed(tmdb_tasks[t].url)

\* C4: a listing with numeric ids whose first item has no link, or a link
\* that does not match /watch/<name>, gives no record and a failure entry.
C4_MissingNameTokenFailed ==
    \A j \in DOMAIN results :
        (/\ variant = "async"
         /\ InFetchScope
         /\ results[j].done
         /\ IsListing(source[FetchedUrl(j)])
         /\ NumericItems(source[FetchedUrl(j)].items) # {}
         /\ ~LinkMatches(source[FetchedUrl(j)].items[1]))
        => ~Produced(FetchedUrl(j)) /\ Failed(FetchedUrl(j))

\* a response on which the fetch fails at stage 1
Stage1Failure(response) ==
    \/ response.transport # "ok"
    \/ response.status # 200
    \/ response.body # "object"
    \/ response.html # "markup"
    \/ NumericItems(response.items) = {}

\* C5: on every stage-1 failure extract_episodes_and_name raises nothing,
\* the URL is in the failure list and no record is produced for it.
C5_Stage1FailureIsolated ==
    \A j \in DOMAIN results :
        (/\ variant = "async"
         /\ InFetchScope
         /\ results[j].done
         /\ Stage1Failure(source[FetchedUrl(j)]))
        => /\ ~results[j].exc
           /\ results[j].ret = NoResult
           /\ Failed(FetchedUrl(j))
           /\ ~Produced(FetchedUrl(j))

\* the fetch hit an exception (a body that is no JSON) and the run went on
C5_Witness ==
    /\ variant = "async"
    /\ pc = "collect"
    /\ results[1].done
    /\ source[1].transport = "ok"
    /\ source[1].body = "invalid"
    /\ Failed(1)

\* C6: the serial_no of the records emitted so far are 1..n in list order.
C6_SerialDense ==
    \A n \in DOMAIN successful_data : successful_data[n].serial_no = n

\* records of two batches with a failed identifier in between
C6_Witness ==
    /\ variant = "async"
    /\ Len(successful_data) >= 2
    /\ record_task[1].url = 1
    /\ record_task[2].url = 3
    /\ Failed(2)

\* C7 as stated: first <= last, with equality exactly when one item of the
\* listing has a numeric id.
C7_EqualIffOneNumericItem ==
    \A j \in DOMAIN results :
        (InFetchScope /\ results[j].done /\ ~IsNone(results[j].ret[1])) =>
            LET first == results[j].ret[1][1]
                last == results[j].ret[2][1]
                items == source[FetchedUrl(j)].items
            IN  /\ first <= last
                /\ (first = last) <=> (Cardinality(NumericItems(items)) = 1)

\* C7 as amended: first <= last; one numeric item gives equality; equality
\* holds exactly when all numeric ids of the listing have one value.
C7_EqualIffOneNumericValue ==
    \A j \in DOMAIN results :
        (InFetchScope /\ results[j].done /\ ~IsNone(results[j].ret[1])) =>
            LET first == results[j].ret[1][1]
                last == results[j].ret[2][1]
                items == source[FetchedUrl(j)].items
            IN  /\ first <= last
                /\ (Cardinality(NumericItems(items)) = 1) => (first = last)
                /\ (first = last) <=> (Cardinality(NumericValues(items)) = 1)

\* two items with the same numeric id: a range of one episode
C7_Witness ==
    \E j \in DOMAIN results :
        /\ InFetchScope
        /\ results[j].done
        /\ ~IsNone(results[j].ret[1])
        /\ results[j].ret[1] = results[j].ret[2]
        /\ Cardinality(NumericItems(source[FetchedUrl(j)].items)) = 2

\* C8: a listing with a numeric id gives first = the smallest and last = the
\* largest numeric id, and the name token of its first item.
C8_MinMaxAndFirstItemToken ==
    \A j \in DOMAIN results :
        (/\ InFetchScope
         /\ results[j].done
         /\ IsListing(source[FetchedUrl(j)])
         /\ NumericItems(source[FetchedUrl(j)].items) # {})
        => LET items == source[FetchedUrl(j)].items
           IN  results[j].ret = <<Some(Min(NumericValues(items))),
                                  Some(Max(NumericValues(items))),
                                  ExpectedToken(items[1])>>

\* the first item's id is skipped, the smallest id comes last, and the token
\* is the first item's
C8_Witness ==
    \E j \in DOMAIN results :
        /\ InFetchScope
        /\ results[j].done
        /\ Len(source[FetchedUrl(j)].items) = 3
        /\ source[FetchedUrl(j)].items[1].data_id = Some(Str_x)
        /\ source[FetchedUrl(j)].items[2].data_id = Some(Str_12)
        /\ source[FetchedUrl(j)].items[3].data_id = Some(Str_3)
        /\ results[j].ret = <<Some(3), Some(12), Some(TokenGood)>>

\* C9: the episodes field of a record is the decimal string of first_episode
\* when first = last, and "first-last" with first < last otherwise.
C9_EpisodesField ==
    \A n \in DOMAIN successful_data :
        LET first == record_task[n].first_ep
            last == record_task[n].last_ep
            episodes == successful_data[n].episodes
        IN  IF first = last
            THEN episodes = IntToStr(first) /\ ParseInt(episodes) = Some(first)
            ELSE /\ first < last
                 /\ episodes = IntToStr(first) \o <<"-">> \o IntToStr(last)
                 /\ ParseInt(UpToDash(episodes)) = Some(first)

\* a record of the range 3..12
C9_Witness ==
    \E n \in DOMAIN successful_data :
        /\ record_task[n].first_ep = 3
        /\ record_task[n].last_ep = 12
        /\ successful_data[n].episodes = <<"3", "-", "1", "2">>

\* C10: get_tmdb_info_sync never raises and returns a (tmdb_id, year, title)
\* with a title, for every name token and every answer of the oracle.
C10_EnricherTotal ==
    /\ call.state # "raised"
    /\ call.state = "returned" =>
        /\ Len(call.ret) = 3
        /\ Len(call.ret[1]) <= 1
        /\ Len(call.ret[2]) <= 1
        /\ \A c \in DOMAIN call.ret[3] : call.ret[3][c] \in STRING

\* the first candidate lacks its id: the call still returns, degraded
C10_Witness ==
    /\ call.state = "returned"
    /\ call.name = Some(TokenGood)
    /\ Len(call.answer.results) > 0
    /\ IsNone(call.answer.results[1].id)
    /\ call.ret = <<None, None, <<"A", "b">> >>

\* the search endpoint answered with a list that has a first candidate
\* carrying an id and a title
OracleGaveCandidate(answer) ==
    /\ answer.transport = "ok"
    /\ answer.status = 200
    /\ answer.body = "object"
    /\ answer.has_results
    /\ Len(answer.results) > 0
    /\ ~IsNone(answer.results[1].id)
    /\ ~IsNone(answer.results[1].name)
\* the year a date field reads as: the integer before its first dash, if any
YearOfDate(date) == IF TruthyStr(date) THEN ParseInt(UpToDash(date[1])) ELSE None

\* C11: when the oracle returns a first candidate, the enricher returns that
\* candidate's id and title, with the year of its date field when that
\* parses and no year otherwise; a missing or unparsable date never costs
\* the id or the title.
C11_CandidateKept ==
    (/\ call.state = "returned"
     /\ TruthyStr(call.name)
     /\ OracleGaveCandidate(call.answer)) =>
        /\ call.ret[1] = call.answer.results[1].id
        /\ call.ret[3] = call.answer.results[1].name[1]
        /\ call.ret[2] = YearOfDate(call.answer.results[1].first_air_date)

\* the name token is a string that lines 112-113 normalize to the empty one
NormalizesToEmpty(anime_name) ==
    /\ ~IsNone(anime_name)
    /\ clean_name_of(anime_name[1]) = <<>>

\* C12: whenever the name token normalizes to the empty string, the enricher
\* returns no id, no year and the title "Unknown Anime", whatever the oracle
\* answers.
C12_EmptyNameIsUnknown ==
    (call.state = "returned" /\ NormalizesToEmpty(call.name)) =>
        call.ret = <<None, None, UnknownAnime>>

\* the call of task t was made with a name and has ended on a transport
\* error or on an empty result list
EndedDegraded(t) ==
    /\ futures[t].state \in {"done", "yielded"}
    /\ futures[t].answer \in {AnswerError, AnswerEmpty}
    /\ TruthyStr(tmdb_tasks[t].anime_name)
\* the degraded match of a name token
DegradedMatch(anime_name) == <<None, None, Title(clean_name_of(anime_name[1]))>>
\* the record of URL u carries the match m
RecordCarries(u, m) ==
    \E n \in DOMAIN record_task :
        /\ record_task[n].url = u
        /\ <<successful_data[n].tmdb_id, successful_data[n].year,
             successful_data[n].title>> = m
\* the orchestrator got the result of task t: future.result returned within
\* its timeout (async), as_completed yielded the future (sync)
Retrieved(t) ==
    IF variant = "async" THEN t < k /\ ~futures[t].timed_out
    ELSE futures[t].state = "yielded"
\* the orchestrator is through with the futures
CollectionOver == pc \in {"batch", "gather", "done"}

RangeResult(u) ==
    IF variant = "async" THEN extract_episodes_and_name(u, source[u]).ret
    ELSE process_single_url(u, source[u]).ret

\* C15: every emitted record has episode_offset = first_ep - 1 and name = the
\* name token, for the (first_ep, last_ep, anime_name) the fetcher returned
\* for the record's URL.
C15_OffsetAndName ==
    \A n \in DOMAIN successful_data :
        LET r == RangeResult(record_task[n].url)
        IN  /\ ~IsNone(r[1])
            /\ successful_data[n].episode_offset = r[1][1] - 1
            /\ successful_data[n].name = r[3]

\* a record of a listing that starts at episode 3 under the token "ab-1?"
C15_Witness ==
    \E n \in DOMAIN successful_data :
        /\ RangeResult(record_task[n].url) = <<Some(3), Some(12), Some(TokenGood)>>
        /\ successful_data[n].episode_offset = 2
        /\ successful_data[n].name = Some(TokenGood)

\* a fetch was dispatched for urls[n]: its batch is under way or over
Dispatched(n) ==
    \/ n <= i
    \/ pc \in {"gather", "collect"} /\ n <= i + max_workers
\* process_urls_async has returned after a fetch for every URL, with no
\* fetch or enrichment call outstanding and every URL whose fetch failed in
\* the failure list
ReturnedComplete ==
    /\ pc = "done"
    /\ \A n \in DOMAIN urls : Dispatched(n)
    /\ \A j \in DOMAIN results : results[j].done
    /\ \A t \in DOMAIN futures : futures[t].state = "done"
    /\ \A n \in DOMAIN urls : Stage1Failure(source[urls[n]]) => Failed(urls[n])

C16_RecordsInSubmissionOrder ==
    \A n, m \in DOMAIN record_task :
        n < m => record_task[n].url < record_task[m].url

\* C17: when process_urls_async is about to dispatch a batch, and while the
\* fetches of that batch are out, every fetch of the batch before has
\* returned and every enrichment call submitted for the batch before has
\* finished running, also those whose result retrieval timed out.
C17_BatchBarrier ==
    variant = "async" =>
        /\ pc = "batch" => \A j \in DOMAIN results : results[j].done
        /\ pc \in {"batch", "gather"} =>
               \A t \in DOMAIN futures : futures[t].state = "done"

\* the second batch is out after a call of the first batch had timed out at
\* its retrieval and then finished
C17_Witness ==
    /\ variant = "async"
    /\ pc = "gather"
    /\ i > 0
    /\ \E t \in DOMAIN futures :
           futures[t].timed_out /\ futures[t].state = "done"

\* the fetches that are out
InFlight == {j \in DOMAIN results : ~results[j].done}

\* C18: in every state of process_urls_async at most max_workers fetches
\* are out and at most 10 enrichment calls are running, and while a fetch of
\* the batch is out no enrichment call of that batch exists: the only
\* futures are the finished ones of the batch before.
C18_BoundedConcurrency ==
    variant = "async" =>
        /\ Cardinality(InFlight) <= max_workers
        /\ Cardinality(Running) <= PoolWorkers
        /\ InFlight # {} => \A t \in DOMAIN futures : futures[t].state = "done"

\* the pool is full: 10 calls are running and one more is waiting, out of a
\* batch whose max_workers fetches were all out at once
C18_Witness ==
    /\ variant = "async"
    /\ Len(urls) > max_workers
    /\ Len(results) = max_workers
    /\ Cardinality(Running) = PoolWorkers
    /\ \E t \in DOMAIN futures : futures[t].state = "queued"

\* the fetch of urls[n] has returned
FetchOver(n) ==
    IF variant = "async"
    THEN \/ n <= i
         \/ /\ pc \in {"gather", "collect"}
            /\ n - i \in DOMAIN results
            /\ results[n - i].done
    ELSE /\ pc \in {"map", "lookup", "done"}
         /\ results[n].done
\* the fetch of a URL with this response appends the URL to error_urls
FetchFails(response) ==
    IF variant = "async" THEN Stage1Failure(response)
    ELSE \/ response.transport # "ok"
         \/ response.status >= 400
         \/ response.body # "object"
         \/ response.html # "markup"
         \/ NumericItems(response.items) = {}
\* the URLs whose fetch has returned after a failure
FailedFetches == {n \in DOMAIN urls : FetchOver(n) /\ FetchFails(source[urls[n]])}
\* a step of the collecting orchestrator: the collection loop of
\* process_urls_async goes on to its next task, or the as_completed loop of
\* fast_sync_version takes a finished future
CollectorStep ==
    \/ pc = "collect" /\ k' = k + 1
    \/ /\ pc = "lookup"
       /\ \E t \in DOMAIN futures :
              futures[t].state = "done" /\ futures'[t].state = "yielded"

\* C19: whatever the interleaving of the fetch workers, the failure list
\* holds one entry for every fetch that has returned after a failure and no
\* other entry (no append is lost), and the record list and its length,
\* from which serial_no is taken, change only in a step of the collecting
\* orchestrator, never in a step of a fetch or enrichment worker.
C19_AppendsKept ==
    /\ [](LET failed == FailedFetches
          IN  /\ \A n \in failed : urls[n] \in Range(error_urls)
              /\ Len(error_urls) = Cardinality(failed))
    /\ [][successful_data' # successful_data => CollectorStep]_vars

\* three fetch workers of fast_sync_version failed and appended in an order
\* that is not the URL order
C19_Witness ==
    /\ variant = "sync"
    /\ FailedFetches = {1, 2, 3}
    /\ error_urls = <<3, 1, 2>>

\* what the other variant's fetch step returns for a URL on the source of
\* this run, and whether the other variant hands it to the enricher
OtherFetch(u) ==
    IF variant = "async" THEN process_single_url(u, source[u])
    ELSE extract_episodes_and_name(u, source[u])
OtherSubmits(u) ==
    IF variant = "async" THEN is_not_none(OtherFetch(u)) ELSE is_valid(OtherFetch(u))

\* C20: when a run of either variant has returned, every URL that yielded a
\* record is one the other variant turns into a record on the same source,
\* and the URLs in the failure list are exactly those the other variant's
\* fetch step puts there.
C20_VariantsAgree ==
    pc = "done" =>
        \A u \in Range(urls) :
            /\ Produced(u) => OtherSubmits(u)
            /\ Failed(u) <=> OtherFetch(u).errs # <<>>

====
